---- MODULE Spec2Model ----
(***************************************************************************)
(* Model of the packetstream ring buffer (src/src/packetstream.c).         *)
(*                                                                         *)
(* The arena is modelled at word granularity: one cell of `buffer' is one  *)
(* machine word.  A packet header (struct ps_packet_header_s) is two       *)
(* words, flags at offset p and size at offset p + 1; payload lengths,     *)
(* positions and free_bytes are counted in words.  Headers live inside     *)
(* the arena, as in the source, and are read back from it.                 *)
(*                                                                         *)
(* Every packet handle (ps_packet_t) is used by one thread.  A step of the *)
(* model runs a call from its entry to its return or to the next point     *)
(* where the thread blocks (pthread_mutex_lock, sem_wait).                 *)
(***************************************************************************)
EXTENDS Integers, Sequences, FiniteSets, TLC

\* sizeof(struct ps_packet_header_s), in words
HeaderSize == 2
\* attr->size given to ps_buffer_init, in words: room for three headers, so
\* that two empty packets and the header slot at write_next fill the arena
ArenaSize == 3 * HeaderSize
\* packets that may be allocated (setsize completed) in one behaviour
MaxPackets == 3
\* longest run of words handed to one ps_packet_write call
MaxChunk == 2

PS_PACKET_HEADER_WRITTEN == 1
PS_PACKET_HEADER_READ == 2

Writers == {1, 2}
Readers == {3, 4}
Handles == Writers \cup Readers

VARIABLES
    state,      \* struct ps_state_s
    buffer,     \* the arena, buffer->buffer[0 .. size-1]
    packet,     \* the ps_packet_t of every handle
    pc,         \* where every handle's thread is
    call,       \* the arguments of the call a blocked thread is inside
    ret,        \* what the call that returned last has returned
    opened,     \* history: how many packets have been allocated so far
    cnt,        \* history: how many packets after read_first each index is
    log         \* history: the packets allocated and not reclaimed, oldest first

vars == <<state, buffer, packet, pc, call, ret, opened, cnt, log>>

----------------------------------------------------------------------------
(* Header access and position arithmetic *)

HasFlag(f, bit) == (f \div bit) % 2 = 1
SetFlag(f, bit) == IF HasFlag(f, bit) THEN f ELSE f + bit

HdrFlags(buf, p) == buf[p]
HdrSize(buf, p) == buf[p + 1]

\* memset(header, 0, sizeof(struct ps_packet_header_s))
ZeroHeader(buf, p) == [buf EXCEPT ![p] = 0, ![p + 1] = 0]

move_pos(pos, buf_size, packet_size) ==
    LET q == (HeaderSize + pos + packet_size) % buf_size
    IN  IF q + HeaderSize > buf_size THEN 0 ELSE q

----------------------------------------------------------------------------
(* Handles *)

IdlePacket ==
    [mode |-> "idle", try |-> FALSE, size_set |-> FALSE,
     buffer_pos |-> 0, pos |-> 0, reserved |-> 0, img |-> <<>>]

NoCall == [op |-> "none", len |-> 0, arg |-> 0, closing |-> FALSE, fb0 |-> 0]

\* ps_buffer_init
Init ==
    /\ state = [size |-> ArenaSize, cancelled |-> FALSE,
                read_pos |-> 0, write_pos |-> 0, read_next |-> 0,
                write_next |-> 0, read_first |-> 0,
                free_bytes |-> ArenaSize - HeaderSize,
                read_mutex |-> 0, write_mutex |-> 0,
                read_close_mutex |-> 0, write_close_mutex |-> 0,
                read_packets |-> 0, written_packets |-> 0]
    /\ buffer = [i \in 0 .. ArenaSize - 1 |-> 0]
    /\ packet = [t \in Handles |-> IdlePacket]
    /\ pc = [t \in Handles |-> "idle"]
    /\ call = [t \in Handles |-> NoCall]
    /\ ret = [status |-> "OK", count |-> 0]
    /\ opened = 0
    /\ cnt = [read_pos |-> 0, read_next |-> 0, write_pos |-> 0, write_next |-> 0]
    /\ log = <<>>

----------------------------------------------------------------------------
(* A call works on a configuration: the buffer state, the arena, the      *)
(* caller's handle and the history counters.  The functions below are the *)
(* bodies of the C functions, from configuration to configuration.        *)

Cfg(t) == [state |-> state, buffer |-> buffer, pk |-> packet[t],
           opened |-> opened, cnt |-> cnt, log |-> log]

\* the result of running a call: the configuration it leaves, the status it
\* returns ("BLOCK": the thread waits in sem_wait) and, for a blocked
\* thread, the call it is inside
Result(c, code) == [c |-> c, ret |-> code, call |-> NoCall]
Blocked(c, cl) == [c |-> c, ret |-> "BLOCK", call |-> cl]

ps_packet_check_open_only(c) ==
    IF c.pk.mode = "idle" THEN "EINVAL" ELSE "OK"

\* __PS_PACKET_CHECK: "OK" when the call may go on
ps_packet_check(c) ==
    IF c.pk.mode = "idle" THEN "EINVAL"
    ELSE IF c.state.cancelled THEN "EINTR"
    ELSE "OK"

\* history: read_first passes one packet
Passed(n) == [read_pos |-> n.read_pos - 1, read_next |-> n.read_next - 1,
              write_pos |-> n.write_pos - 1, write_next |-> n.write_next - 1]
Rest(lg) == IF lg = <<>> THEN lg ELSE Tail(lg)

\* the body of the do-while of ps_packet_reserve: one packet at read_first is
\* given back to free_bytes
ReclaimNoPadding(c) ==
    LET s == c.state
        h == HdrSize(c.buffer, s.read_first)
        rf == (s.read_first + HeaderSize + h) % s.size
    IN  [c EXCEPT !.state.free_bytes = s.free_bytes + HeaderSize + h,
                  !.state.read_first = IF rf + HeaderSize > s.size THEN 0 ELSE rf,
                  !.cnt = Passed(@), !.log = Rest(@)]

Reclaim(c) ==
    LET s == c.state
        h == HdrSize(c.buffer, s.read_first)
        fb == s.free_bytes + HeaderSize + h
        rf == (s.read_first + HeaderSize + h) % s.size
    IN  IF rf + HeaderSize > s.size
        THEN [c EXCEPT !.state.free_bytes = fb + (s.size - rf),
                       !.state.read_first = 0,
                       !.cnt = Passed(@), !.log = Rest(@)]
        ELSE [c EXCEPT !.state.free_bytes = fb,
                       !.state.read_first = rf,
                       !.cnt = Passed(@), !.log = Rest(@)]

RECURSIVE ReserveInner(_)
ReserveInnerCancelFirst(c) ==
    IF c.state.cancelled
    THEN [c |-> [c EXCEPT !.state.write_mutex = 0], status |-> "EINTR"]
    ELSE LET c1 == Reclaim(c)
         IN  IF c1.state.read_packets > 0
             THEN ReserveInner([c1 EXCEPT !.state.read_packets = @ - 1])
             ELSE [c |-> c1, status |-> "OK"]

\* do { reclaim; __PS_CHECK_CANCEL_WRITE } while (!sem_trywait(&read_packets)),
\* entered with one token of read_packets already taken
ReserveInner(c) ==
    LET c1 == Reclaim(c)
    IN  IF c1.state.cancelled
        THEN [c |-> [c1 EXCEPT !.state.write_mutex = 0], status |-> "EINTR"]
        ELSE IF c1.state.read_packets > 0
        THEN ReserveInner([c1 EXCEPT !.state.read_packets = @ - 1])
        ELSE [c |-> c1, status |-> "OK"]

\* while (state->free_bytes < 0) { wait for a token; reclaim }
RECURSIVE ReserveLoop(_)
ReserveLoop(c) ==
    IF c.state.free_bytes >= 0 THEN [c |-> c, status |-> "OK"]
    ELSE IF c.state.read_packets = 0
    THEN [c |-> c, status |-> IF c.pk.try THEN "EBUSY" ELSE "BLOCK"]
    ELSE LET r == ReserveInner([c EXCEPT !.state.read_packets = @ - 1])
         IN  IF r.status = "EINTR" THEN r ELSE ReserveLoop(r.c)

ReserveExitKeepsDelta(c0, r, len) ==
    IF r.status = "OK" THEN [r EXCEPT !.c.pk.reserved = len] ELSE r

\* the exits of ps_packet_reserve once its loop has run
ReserveExit(c0, r, len) ==
    CASE r.status = "OK" -> [r EXCEPT !.c.pk.reserved = len]
      [] r.status = "EBUSY" ->
            [r EXCEPT !.c.state.free_bytes = @ + (len - c0.pk.reserved)]
      [] OTHER -> r

ps_packet_reserve_whole(c, len) ==
    IF len <= c.pk.reserved THEN [c |-> c, status |-> "OK"]
    ELSE ReserveExit(c, ReserveLoop([c EXCEPT !.state.free_bytes = @ - len]), len)

ps_packet_reserve(c, len) ==
    IF len <= c.pk.reserved THEN [c |-> c, status |-> "OK"]
    ELSE ReserveExit(c,
            ReserveLoop([c EXCEPT !.state.free_bytes = @ - (len - c.pk.reserved)]),
            len)

\* a thread blocked in sem_wait(&state->read_packets) is given a token
ReserveResume(c, len) == ReserveExit(c, ReserveLoop(c), len)

\* what a call returns when its reserve did not succeed; fb0 is free_bytes as
\* it was when ps_packet_reserve was entered
ReserveFailed(r, op, len, arg, closing, fb0) ==
    IF r.status = "BLOCK"
    THEN Blocked(r.c, [op |-> op, len |-> len, arg |-> arg, closing |-> closing,
                       fb0 |-> fb0])
    ELSE Result(r.c, r.status)

----------------------------------------------------------------------------
(* Payload *)

\* the caller's data: the word stored at offset i of the packet at arena
\* position p (never 0, and different for every packet position and offset)
Byte(p, i) == 16 * (p + 1) + i + 1
Src(p, pos, n) == [k \in 1 .. n |-> Byte(p, pos + k - 1)]

\* memcpy of src into the arena at offs, split at the arena end
MemWriteNoSplit(buf, size, offs, src) ==
    [i \in DOMAIN buf |->
        IF i >= offs /\ i < offs + Len(src) THEN src[i - offs + 1] ELSE buf[i]]

MemWrite(buf, size, offs, src) ==
    LET n == Len(src)
        first == size - offs
    IN  IF offs + n > size
        THEN [i \in DOMAIN buf |->
                IF i >= offs THEN src[i - offs + 1]
                ELSE IF i < n - first THEN src[first + i + 1]
                ELSE buf[i]]
        ELSE [i \in DOMAIN buf |->
                IF i >= offs /\ i < offs + n THEN src[i - offs + 1] ELSE buf[i]]

MemReadNoSplit(buf, size, offs, n) ==
    [k \in 1 .. n |-> IF offs + k - 1 < size THEN buf[offs + k - 1] ELSE 0]

\* memcpy of n words out of the arena from offs, split at the arena end
MemRead(buf, size, offs, n) ==
    LET first == size - offs
    IN  IF offs + n > size
        THEN [k \in 1 .. n |->
                IF k <= first THEN buf[offs + k - 1] ELSE buf[k - first - 1]]
        ELSE [k \in 1 .. n |-> buf[offs + k - 1]]

\* history: the payload image of a packet after src is stored at pos (0: a
\* word no write call has stored)
ImgPut(img, pos, src) ==
    LET top == IF pos + Len(src) > Len(img) THEN pos + Len(src) ELSE Len(img)
    IN  [i \in 1 .. top |->
            IF i > pos /\ i <= pos + Len(src) THEN src[i - pos]
            ELSE IF i <= Len(img) THEN img[i] ELSE 0]

ImgCut(img, n) ==
    [i \in 1 .. n |-> IF i <= Len(img) THEN img[i] ELSE 0]

PayloadOffs(c) == (c.pk.buffer_pos + HeaderSize + c.pk.pos) % c.state.size

\* pos has moved: an open packet of unfrozen size grows
GrowHeader(c) ==
    IF c.pk.pos > HdrSize(c.buffer, c.pk.buffer_pos)
    THEN [c EXCEPT !.buffer[c.pk.buffer_pos + 1] = c.pk.pos]
    ELSE c

----------------------------------------------------------------------------
(* ps_packet_write, ps_packet_read, ps_packet_seek *)

WriteCopy(c, t, n) ==
    LET src == Src(c.pk.buffer_pos, c.pk.pos, n)
        c1 == [c EXCEPT !.buffer = MemWrite(c.buffer, c.state.size, PayloadOffs(c), src),
                        !.pk.img = ImgPut(c.pk.img, c.pk.pos, src),
                        !.pk.pos = @ + n]
    IN  GrowHeader(c1)

WriteAfter(r, t, n, fb0) ==
    IF r.status # "OK"
    THEN ReserveFailed(r, "write", r.c.pk.pos + n, n, FALSE, fb0)
    ELSE Result(WriteCopy(r.c, t, n), "OK")

ps_packet_write(c, t, n) ==
    IF ps_packet_check(c) # "OK" THEN Result(c, ps_packet_check(c))
    ELSE IF c.pk.size_set
    THEN IF c.pk.pos + n > HdrSize(c.buffer, c.pk.buffer_pos)
         THEN Result(c, "EINVAL")
         ELSE Result(WriteCopy(c, t, n), "OK")
    ELSE IF c.pk.pos + n + HeaderSize * 2 > c.state.size
    THEN Result(c, "ENOBUFS")
    ELSE WriteAfter(ps_packet_reserve(c, c.pk.pos + n), t, n, c.state.free_bytes)

ps_packet_read(c, n) ==
    IF ps_packet_check(c) # "OK" THEN Result(c, ps_packet_check(c))
    ELSE IF c.pk.pos + n > HdrSize(c.buffer, c.pk.buffer_pos)
    THEN Result(c, "EINVAL")
    ELSE Result([c EXCEPT
                    !.pk.img = @ \o MemRead(c.buffer, c.state.size, PayloadOffs(c), n),
                    !.pk.pos = @ + n], "OK")

SeekAfter(r, pos, fb0) ==
    IF r.status # "OK"
    THEN ReserveFailed(r, "seek", pos, pos, FALSE, fb0)
    ELSE Result(GrowHeader([r.c EXCEPT !.pk.pos = pos]), "OK")

ps_packet_seek(c, pos) ==
    IF ps_packet_check(c) # "OK" THEN Result(c, ps_packet_check(c))
    ELSE IF c.pk.size_set \/ c.pk.mode = "read"
    THEN IF pos > HdrSize(c.buffer, c.pk.buffer_pos)
         THEN Result(c, "EINVAL")
         ELSE Result([c EXCEPT !.pk.pos = pos], "OK")
    ELSE IF pos + HeaderSize > c.state.size
    THEN Result(c, "EINVAL")
    ELSE SeekAfter(ps_packet_reserve(c, pos), pos, c.state.free_bytes)

----------------------------------------------------------------------------
(* Commit: ps_packet_closewrite, ps_packet_closeread *)

\* do { pos = move_pos(pos, size, header->size); sem_post; header = &buffer[pos] }
\* while (header->flags & bit): the index after the walk and the posts made
RECURSIVE Walk(_, _, _, _, _)
Walk(buf, pos, size, bit, k) ==
    LET q == move_pos(pos, size, HdrSize(buf, pos))
    IN  IF HasFlag(HdrFlags(buf, q), bit) /\ k < size
        THEN Walk(buf, q, size, bit, k + 1)
        ELSE [pos |-> q, k |-> k + 1]

\* history: the packet of the log that lies at pos in state st (0: none)
LogFind(lg, pos, st) ==
    IF \E i \in 1 .. Len(lg) : lg[i].pos = pos /\ lg[i].st = st
    THEN CHOOSE i \in 1 .. Len(lg) : lg[i].pos = pos /\ lg[i].st = st
    ELSE 0

\* history: packet seq of the log goes from state `from' to state `to'; a
\* packet that is not in state `from' is marked "bad"
LogStep(lg, seq, from, to) ==
    IF seq \in 1 .. Len(lg)
    THEN [lg EXCEPT ![seq].st = IF @ = from THEN to ELSE "bad"]
    ELSE lg

\* history: the open packet at pos is committed with payload data; late
\* records that a packet allocated after it was committed before it
LogCommit(lg, pos, data) ==
    LET k == LogFind(lg, pos, "open")
    IN  IF k = 0 THEN lg
        ELSE [lg EXCEPT ![k].st = "committed", ![k].data = data,
                        ![k].late = \E j \in (k + 1) .. Len(lg) :
                                        lg[j].st # "open"]

\* history: the claimed packet at pos is released
LogRelease(lg, pos) ==
    LET k == LogFind(lg, pos, "claimed")
    IN  IF k = 0 THEN lg
        ELSE [lg EXCEPT ![k].st = "released", ![k].data = <<>>,
                        ![k].late = FALSE]

\* history: packet seq is claimed and released at once by ps_buffer_drain
LogDrain(lg, seq) ==
    IF seq \in 1 .. Len(lg)
    THEN [lg EXCEPT ![seq].st = IF @ = "committed" THEN "released" ELSE "bad",
                    ![seq].data = <<>>, ![seq].late = FALSE]
    ELSE lg

CloseWriteAlwaysPosts(c) ==
    LET p == c.pk.buffer_pos
        buf == [c.buffer EXCEPT ![p] = SetFlag(@, PS_PACKET_HEADER_WRITTEN)]
        w == Walk(buf, p, c.state.size, PS_PACKET_HEADER_WRITTEN, 0)
        lg == LogCommit(c.log, p, ImgCut(c.pk.img, HdrSize(buf, p)))
    IN  [c EXCEPT !.buffer = buf, !.log = lg, !.pk = IdlePacket,
                  !.state.written_packets = @ + w.k,
                  !.state.write_pos = w.pos,
                  !.cnt.write_pos = @ + w.k]

\* ps_packet_closewrite from pthread_mutex_lock(&state->write_close_mutex) on
CloseWriteCommit(c) ==
    LET p == c.pk.buffer_pos
        buf == [c.buffer EXCEPT ![p] = SetFlag(@, PS_PACKET_HEADER_WRITTEN)]
        w == Walk(buf, p, c.state.size, PS_PACKET_HEADER_WRITTEN, 0)
        lg == LogCommit(c.log, p, ImgCut(c.pk.img, HdrSize(buf, p)))
    IN  IF c.state.write_pos = p
        THEN [c EXCEPT !.buffer = buf, !.log = lg, !.pk = IdlePacket,
                       !.state.written_packets = @ + w.k,
                       !.state.write_pos = w.pos,
                       !.cnt.write_pos = @ + w.k]
        ELSE [c EXCEPT !.buffer = buf, !.log = lg, !.pk = IdlePacket]

ps_packet_closeread_once(c) ==
    LET p == c.pk.buffer_pos
        buf == [c.buffer EXCEPT ![p] = SetFlag(@, PS_PACKET_HEADER_READ)]
    IN  IF c.state.read_pos = p
        THEN [c EXCEPT !.buffer = buf, !.log = LogRelease(c.log, p),
                       !.pk = IdlePacket,
                       !.state.read_packets = @ + 1,
                       !.state.read_pos =
                           move_pos(p, c.state.size, HdrSize(buf, p)),
                       !.cnt.read_pos = @ + 1]
        ELSE [c EXCEPT !.buffer = buf, !.log = LogRelease(c.log, p),
                       !.pk = IdlePacket]

\* lines 666-698
ps_packet_closeread(c) ==
    LET p == c.pk.buffer_pos
        buf == [c.buffer EXCEPT ![p] = SetFlag(@, PS_PACKET_HEADER_READ)]
        w == Walk(buf, p, c.state.size, PS_PACKET_HEADER_READ, 0)
        lg == LogRelease(c.log, p)
    IN  IF c.state.read_pos = p
        THEN [c EXCEPT !.buffer = buf, !.log = lg, !.pk = IdlePacket,
                       !.state.read_packets = @ + w.k,
                       !.state.read_pos = w.pos,
                       !.cnt.read_pos = @ + w.k]
        ELSE [c EXCEPT !.buffer = buf, !.log = lg, !.pk = IdlePacket]

----------------------------------------------------------------------------
(* ps_packet_setsize, ps_packet_close, ps_packet_cancel *)

\* lines 539-543: the slot of the next header and the padding skipped
NextSlot(c, size) == (HeaderSize + c.state.write_next + size) % c.state.size
Padding(c, size) ==
    IF NextSlot(c, size) + HeaderSize > c.state.size
    THEN c.state.size - NextSlot(c, size) ELSE 0
NewWriteNextStays(c, size) == c.state.write_next

NewWriteNext(c, size) ==
    IF NextSlot(c, size) + HeaderSize > c.state.size THEN 0 ELSE NextSlot(c, size)

SetSizeFinalKeepsMutex(c, size) ==
    LET wn == NewWriteNext(c, size)
        buf == [c.buffer EXCEPT ![c.pk.buffer_pos + 1] = size]
    IN  [c EXCEPT
            !.state.free_bytes =
                @ + c.pk.reserved - (size + HeaderSize + Padding(c, size)),
            !.state.write_next = wn,
            !.buffer = ZeroHeader(buf, wn),
            !.pk.size_set = TRUE,
            !.opened = @ + 1,
            !.cnt.write_next = @ + 1,
            !.pk.img = ImgCut(c.pk.img, size),
            !.log = Append(c.log, [pos |-> c.pk.buffer_pos, size |-> size,
                                   st |-> "open", data |-> <<>>,
                                   late |-> FALSE])]

\* lines 553-560
SetSizeFinal(c, size) ==
    LET wn == NewWriteNext(c, size)
        buf == [c.buffer EXCEPT ![c.pk.buffer_pos + 1] = size]
    IN  [c EXCEPT
            !.state.free_bytes =
                @ + c.pk.reserved - (size + HeaderSize + Padding(c, size)),
            !.state.write_next = wn,
            !.state.write_mutex = 0,
            !.buffer = ZeroHeader(buf, wn),
            !.pk.size_set = TRUE,
            !.opened = @ + 1,
            !.cnt.write_next = @ + 1,
            !.pk.img = ImgCut(c.pk.img, size),
            !.log = Append(c.log, [pos |-> c.pk.buffer_pos, size |-> size,
                                   st |-> "open", data |-> <<>>,
                                   late |-> FALSE])]

\* the second ps_packet_reserve of ps_packet_setsize has returned
SetSizeB(r, size, closing, fb0) ==
    IF r.status # "OK"
    THEN ReserveFailed(r, "setsize2", HeaderSize + size + Padding(r.c, size),
                       size, closing, fb0)
    ELSE IF closing
    THEN Result(CloseWriteCommit(SetSizeFinal(r.c, size)), "OK")
    ELSE Result(SetSizeFinal(r.c, size), "OK")

\* the first ps_packet_reserve of ps_packet_setsize has returned
SetSizeA(r, size, closing, fb0) ==
    IF r.status # "OK"
    THEN ReserveFailed(r, "setsize1", size, size, closing, fb0)
    ELSE LET c2 == [r.c EXCEPT !.pk.try = FALSE]
         IN  SetSizeB(ps_packet_reserve(c2, HeaderSize + size + Padding(c2, size)),
                      size, closing, c2.state.free_bytes)

SetSize(c, size, closing) ==
    IF ps_packet_check(c) # "OK" THEN Result(c, ps_packet_check(c))
    ELSE IF c.pk.mode # "write" \/ c.pk.size_set THEN Result(c, "EINVAL")
    ELSE IF size + HeaderSize * 2 > c.state.size THEN Result(c, "ENOBUFS")
    ELSE SetSizeA(ps_packet_reserve(c, size), size, closing, c.state.free_bytes)

ps_packet_setsize(c, size) == SetSize(c, size, FALSE)

ps_packet_close(c) ==
    IF ps_packet_check(c) # "OK" THEN Result(c, ps_packet_check(c))
    ELSE LET c1 == [c EXCEPT !.pk.try = FALSE]
         IN  IF c1.pk.mode = "read" THEN Result(ps_packet_closeread(c1), "OK")
             ELSE IF ~c1.pk.size_set
             THEN SetSize(c1, HdrSize(c1.buffer, c1.pk.buffer_pos), TRUE)
             ELSE Result(CloseWriteCommit(c1), "OK")

ps_packet_cancel_any(c) ==
    IF ps_packet_check(c) # "OK" THEN Result(c, ps_packet_check(c))
    ELSE Result([c EXCEPT !.state.free_bytes = @ + c.pk.reserved,
                          !.state.write_mutex = 0,
                          !.buffer = ZeroHeader(@, c.pk.buffer_pos),
                          !.pk = IdlePacket], "OK")

ps_packet_cancel_no_refund(c) ==
    IF ps_packet_check(c) # "OK" THEN Result(c, ps_packet_check(c))
    ELSE IF c.pk.mode # "write" \/ c.pk.size_set THEN Result(c, "EINVAL")
    ELSE Result([c EXCEPT !.state.write_mutex = 0,
                          !.buffer = ZeroHeader(@, c.pk.buffer_pos),
                          !.pk = IdlePacket], "OK")

ps_packet_cancel(c) ==
    IF ps_packet_check(c) # "OK" THEN Result(c, ps_packet_check(c))
    ELSE IF c.pk.mode # "write" THEN Result(c, "EINVAL")
    ELSE IF c.pk.size_set THEN Result(c, "EINVAL")
    ELSE Result([c EXCEPT !.state.free_bytes = @ + c.pk.reserved,
                          !.state.write_mutex = 0,
                          !.buffer = ZeroHeader(@, c.pk.buffer_pos),
                          !.pk = IdlePacket], "OK")

----------------------------------------------------------------------------
(* ps_packet_open *)

\* ps_packet_openread from the second __PS_CHECK_CANCEL_READ on, the token of
\* written_packets taken
OpenReadBindStays(c) ==
    [c EXCEPT
        !.pk = [IdlePacket EXCEPT !.mode = "read",
                                  !.buffer_pos = c.state.read_next],
        !.state.read_mutex = 0,
        !.cnt.read_next = @ + 1,
        !.log = LogStep(@, c.cnt.read_next + 1, "committed", "claimed")]

OpenReadBind(c) ==
    [c EXCEPT
        !.pk = [IdlePacket EXCEPT !.mode = "read",
                                  !.buffer_pos = c.state.read_next],
        !.state.read_next =
            move_pos(@, c.state.size, HdrSize(c.buffer, c.state.read_next)),
        !.state.read_mutex = 0,
        !.cnt.read_next = @ + 1,
        !.log = LogStep(@, c.cnt.read_next + 1, "committed", "claimed")]

OpenReadTaken(c) ==
    LET c1 == [c EXCEPT !.state.written_packets = @ - 1]
    IN  IF c1.state.cancelled
        THEN Result([c1 EXCEPT !.state.read_mutex = 0], "EINTR")
        ELSE Result(OpenReadBind(c1), "OK")

\* ps_packet_openwrite once write_mutex is locked
OpenWriteBind(c, t, try) ==
    [c EXCEPT
        !.pk = [IdlePacket EXCEPT !.mode = "write", !.try = try,
                                  !.buffer_pos = c.state.write_next],
        !.state.write_mutex = t,
        !.buffer = ZeroHeader(@, c.state.write_next)]

----------------------------------------------------------------------------
(* ps_buffer_drain, ps_buffer_cancel *)

RECURSIVE DrainLoopNoPost(_, _)
DrainLoopNoPost(c, res) ==
    IF c.state.written_packets = 0 THEN [c |-> c, res |-> res]
    ELSE LET pos == c.state.read_next
             buf == [c.buffer EXCEPT ![pos] = SetFlag(@, PS_PACKET_HEADER_READ)]
             rn == move_pos(pos, c.state.size, HdrSize(buf, pos))
         IN  DrainLoopNoPost(
                 [c EXCEPT !.state.written_packets = @ - 1,
                           !.buffer = buf,
                           !.state.read_next = rn,
                           !.cnt.read_next = @ + 1,
                           !.log = LogDrain(@, c.cnt.read_next + 1)], res)

DrainLoopOnce(c, res) ==
    IF c.state.written_packets = 0 THEN [c |-> c, res |-> res]
    ELSE LET pos == c.state.read_next
             buf == [c.buffer EXCEPT ![pos] = SetFlag(@, PS_PACKET_HEADER_READ)]
             rn == move_pos(pos, c.state.size, HdrSize(buf, pos))
         IN  [c |-> [c EXCEPT !.state.written_packets = @ - 1,
                              !.buffer = buf,
                              !.state.read_next = rn,
                              !.cnt.read_next = @ + 1,
                              !.log = LogDrain(@, c.cnt.read_next + 1),
                              !.state.read_packets = @ + 1,
                              !.state.read_pos = rn,
                              !.cnt.read_pos = @ + 1],
              res |-> res + 1]

RECURSIVE DrainLoopAlwaysPosts(_, _)
DrainLoopAlwaysPosts(c, res) ==
    IF c.state.written_packets = 0 THEN [c |-> c, res |-> res]
    ELSE LET pos == c.state.read_next
             buf == [c.buffer EXCEPT ![pos] = SetFlag(@, PS_PACKET_HEADER_READ)]
             rn == move_pos(pos, c.state.size, HdrSize(buf, pos))
             c1 == [c EXCEPT !.state.written_packets = @ - 1,
                             !.buffer = buf,
                             !.state.read_next = rn,
                             !.cnt.read_next = @ + 1,
                             !.log = LogDrain(@, c.cnt.read_next + 1),
                             !.state.read_packets = @ + 1]
         IN  IF c.state.read_pos = pos
             THEN DrainLoopAlwaysPosts([c1 EXCEPT !.state.read_pos = rn,
                                                  !.cnt.read_pos = @ + 1],
                                       res + 1)
             ELSE DrainLoopAlwaysPosts(c1, res)

\* while (!sem_trywait(&state->written_packets)) { ... }
RECURSIVE DrainLoop(_, _)
DrainLoop(c, res) ==
    IF c.state.written_packets = 0 THEN [c |-> c, res |-> res]
    ELSE LET pos == c.state.read_next
             buf == [c.buffer EXCEPT ![pos] = SetFlag(@, PS_PACKET_HEADER_READ)]
             rn == move_pos(pos, c.state.size, HdrSize(buf, pos))
             c1 == [c EXCEPT !.state.written_packets = @ - 1,
                             !.buffer = buf,
                             !.state.read_next = rn,
                             !.cnt.read_next = @ + 1,
                             !.log = LogDrain(@, c.cnt.read_next + 1)]
         IN  IF c.state.read_pos = pos
             THEN DrainLoop([c1 EXCEPT !.state.read_packets = @ + 1,
                                       !.state.read_pos = rn,
                                       !.cnt.read_pos = @ + 1], res + 1)
             ELSE DrainLoop(c1, res)

\* lines 1018-1024.  The two mutexes are unlocked whoever holds them; with
\* the default mutex type of ps_buffer_init the unlock of a mutex the caller
\* does not hold, or that is not locked, leaves it unlocked
ps_buffer_cancel(s) ==
    [s EXCEPT !.cancelled = TRUE,
              !.read_packets = @ + 1,
              !.written_packets = @ + 1,
              !.read_mutex = 0,
              !.write_mutex = 0]

----------------------------------------------------------------------------
(* Actions *)

\* the call of handle t ends or blocks as r says
Finish(t, r) ==
    /\ state' = r.c.state
    /\ buffer' = r.c.buffer
    /\ packet' = [packet EXCEPT ![t] = r.c.pk]
    /\ opened' = r.c.opened
    /\ cnt' = r.c.cnt
    /\ log' = r.c.log
    /\ call' = [call EXCEPT ![t] = r.call]
    /\ IF r.ret = "BLOCK"
       THEN pc' = [pc EXCEPT ![t] = "reserve"] /\ ret' = ret
       ELSE /\ pc' = [pc EXCEPT ![t] = "idle"]
            /\ ret' = [status |-> r.ret, count |-> 0]

\* the PS_PACKET_TRY flag each handle opens with
TryFlags(t) == IF t \in {1, 3} THEN {FALSE} ELSE {TRUE}
\* the sizes ps_packet_setsize is called with: up to one word more than fits
SetSizes == 0 .. (ArenaSize - 2 * HeaderSize + 1)
Chunks == 1 .. MaxChunk
\* the positions ps_packet_seek is called with on a write handle
SeekTargets == {ArenaSize - HeaderSize}

OpenRead(t, try) ==
    /\ t \in Readers /\ pc[t] = "idle" /\ packet[t].mode = "idle"
    /\ IF state.cancelled THEN Finish(t, Result(Cfg(t), "EINTR"))
       ELSE IF state.read_mutex # 0 THEN try /\ Finish(t, Result(Cfg(t), "EBUSY"))
       ELSE IF state.written_packets > 0 THEN Finish(t, OpenReadTaken(Cfg(t)))
       ELSE IF try THEN Finish(t, Result(Cfg(t), "EBUSY"))
       ELSE /\ state' = [state EXCEPT !.read_mutex = t]
            /\ pc' = [pc EXCEPT ![t] = "openread"]
            /\ UNCHANGED <<buffer, packet, call, ret, opened, cnt, log>>

\* sem_wait(&state->written_packets) returns in a blocked ps_packet_openread
OpenReadWake(t) ==
    /\ pc[t] = "openread"
    /\ state.written_packets > 0
    /\ Finish(t, OpenReadTaken(Cfg(t)))

OpenWriteIgnoresCancel(t, try) ==
    /\ t \in Writers /\ pc[t] = "idle" /\ packet[t].mode = "idle"
    /\ IF state.write_mutex # 0 THEN try /\ Finish(t, Result(Cfg(t), "EBUSY"))
       ELSE Finish(t, Result(OpenWriteBind(Cfg(t), t, try), "OK"))

\* ps_packet_open(.., PS_PACKET_WRITE)
OpenWriteCall(t, try) ==
    /\ t \in Writers /\ pc[t] = "idle" /\ packet[t].mode = "idle"
    /\ IF state.cancelled THEN Finish(t, Result(Cfg(t), "EINTR"))
       ELSE IF state.write_mutex # 0 THEN try /\ Finish(t, Result(Cfg(t), "EBUSY"))
       ELSE Finish(t, Result(OpenWriteBind(Cfg(t), t, try), "OK"))

\* the producers open MaxPackets packets at most
OpenWrite(t, try) == opened < MaxPackets /\ OpenWriteCall(t, try)

SetSizeCall(t, size) ==
    /\ t \in Writers /\ pc[t] = "idle" /\ packet[t].mode = "write"
    /\ Finish(t, ps_packet_setsize(Cfg(t), size))

Write(t, n) ==
    /\ t \in Writers /\ pc[t] = "idle" /\ packet[t].mode = "write"
    /\ Finish(t, ps_packet_write(Cfg(t), t, n))

Seek(t, pos) ==
    /\ t \in Writers /\ pc[t] = "idle" /\ packet[t].mode = "write"
    /\ ~packet[t].size_set
    /\ Finish(t, ps_packet_seek(Cfg(t), pos))

Read(t, n) ==
    /\ t \in Readers /\ pc[t] = "idle" /\ packet[t].mode = "read"
    /\ Finish(t, ps_packet_read(Cfg(t), n))

\* the close mutex of the handle's direction is taken and released inside the
\* step
Close(t) ==
    /\ pc[t] = "idle" /\ packet[t].mode # "idle"
    /\ IF packet[t].mode = "read"
       THEN state.read_close_mutex = 0
       ELSE state.write_close_mutex = 0
    /\ Finish(t, ps_packet_close(Cfg(t)))

Cancel(t) ==
    /\ t \in Writers /\ pc[t] = "idle" /\ packet[t].mode = "write"
    /\ Finish(t, ps_packet_cancel(Cfg(t)))

\* sem_wait(&state->read_packets) returns in a blocked ps_packet_reserve
ReserveWake(t) ==
    /\ pc[t] = "reserve"
    /\ state.read_packets > 0
    /\ LET r == ReserveResume(Cfg(t), call[t].len)
           cl == call[t]
       IN  CASE cl.op = "write" -> Finish(t, WriteAfter(r, t, cl.arg, cl.fb0))
             [] cl.op = "seek" -> Finish(t, SeekAfter(r, cl.arg, cl.fb0))
             [] cl.op = "setsize1" ->
                    Finish(t, SetSizeA(r, cl.arg, cl.closing, cl.fb0))
             [] cl.op = "setsize2" ->
                    Finish(t, SetSizeB(r, cl.arg, cl.closing, cl.fb0))

\* ps_buffer_drain; read_mutex and read_close_mutex are taken and released
\* inside the step
Drain ==
    /\ state.read_mutex = 0 /\ state.read_close_mutex = 0
    /\ LET d == DrainLoop([state |-> state, buffer |-> buffer, pk |-> IdlePacket,
                           opened |-> opened, cnt |-> cnt, log |-> log], 0)
       IN  /\ state' = d.c.state
           /\ buffer' = d.c.buffer
           /\ cnt' = d.c.cnt
           /\ log' = d.c.log
           /\ ret' = [status |-> "OK", count |-> d.res]
    /\ UNCHANGED <<packet, pc, call, opened>>

BufferCancel ==
    /\ ~state.cancelled
    /\ state' = ps_buffer_cancel(state)
    /\ ret' = [status |-> "OK", count |-> 0]
    /\ UNCHANGED <<buffer, packet, pc, call, opened, cnt, log>>

Next ==
    \/ \E t \in Handles : \E try \in TryFlags(t) : OpenRead(t, try)
    \/ \E t \in Handles : OpenReadWake(t)
    \/ \E t \in Handles : \E try \in TryFlags(t) : OpenWrite(t, try)
    \/ \E t \in Handles, size \in SetSizes : SetSizeCall(t, size)
    \/ \E t \in Handles, n \in Chunks : Write(t, n)
    \/ \E t \in Handles, pos \in SeekTargets : Seek(t, pos)
    \/ \E t \in Handles, n \in Chunks : Read(t, n)
    \/ \E t \in Handles : Close(t)
    \/ \E t \in Handles : Cancel(t)
    \/ \E t \in Handles : ReserveWake(t)
    \/ Drain
    \/ BufferCancel

Spec == Init /\ [][Next]_vars

----------------------------------------------------------------------------
(* Properties *)

\* no call is in progress: every thread is outside the library
Quiescent == \A t \in Handles : pc[t] = "idle"

ReadOpen == {t \in Readers : packet[t].mode = "read"}
WriteOpen == {t \in Writers : packet[t].mode = "write"}

\* the live packets in state st
InState(st) == {k \in 1 .. Len(log) : log[k].st = st}

\* C1: whenever ps_packet_open(.., PS_PACKET_READ) binds a handle, the packet
\* it binds is a committed one, it is the oldest packet (in the order of the
\* producers' opens) that no consumer and no drain has claimed, and every
\* packet opened before it has been claimed: consumers get the packets in
\* the order the producers opened them, whatever the order of the closes.
C1_FifoClaimOrder ==
    [][\A t \in Readers :
          (packet[t].mode = "idle" /\ packet'[t].mode = "read") =>
              \E k \in 1 .. Len(log) :
                  /\ log[k].pos = packet'[t].buffer_pos
                  /\ log[k].st = "committed"
                  /\ log'[k].st = "claimed"
                  /\ \A j \in 1 .. (k - 1) :
                         log[j].st \in {"claimed", "released"}
                  /\ \A j \in (k + 1) .. Len(log) :
                         log[j].st \in {"open", "committed"}]_vars

\* two producers closed their packets in the reverse order of their opens
\* and the two consumers hold them in the order of the opens
C1_Witness ==
    /\ Len(log) >= 2
    /\ log[1].late /\ log[1].st = "claimed" /\ log[2].st = "claimed"
    /\ packet[3].mode = "read" /\ packet[3].buffer_pos = log[1].pos
    /\ packet[4].mode = "read" /\ packet[4].buffer_pos = log[2].pos
    /\ packet[3].pos = log[1].size

\* packet k and every live packet allocated before it have been committed
Visible(k) == \A j \in 1 .. k : log[j].st # "open"

\* where the first packet that is not committed starts (write_next: none)
FirstUncommitted ==
    IF \E k \in 1 .. Len(log) : ~Visible(k)
    THEN log[CHOOSE k \in 1 .. Len(log) :
                 ~Visible(k) /\ \A j \in 1 .. (k - 1) : Visible(j)].pos
    ELSE state.write_next

\* C2: producers commit in any order, consumers see the packets in order.  As
\* long as the buffer is not cancelled (open(READ) and close then refuse):
\* a packet has been claimed only if it and every packet allocated before it
\* were committed; written_packets holds one token for every committed,
\* unclaimed packet that has no uncommitted packet before it and none for a
\* packet committed behind an uncommitted one; write_pos is the first packet
\* that is not committed, so the close of that packet walks and posts the
\* whole contiguous run of committed packets behind it.
C2_InOrderVisibility ==
    ~state.cancelled =>
        /\ \A k \in 1 .. Len(log) :
               /\ log[k].st # "bad"
               /\ log[k].st \in {"claimed", "released"} => Visible(k)
        /\ state.written_packets =
               Cardinality({k \in InState("committed") : Visible(k)})
        /\ state.write_pos = FirstUncommitted

\* B is committed behind the uncommitted A: no token, and a consumer sleeps
\* in open(READ) although a committed packet exists
C2_Witness ==
    /\ Len(log) = 2
    /\ log[1].st = "open" /\ log[2].st = "committed"
    /\ state.written_packets = 0
    /\ state.write_pos = log[1].pos
    /\ pc[3] = "openread"

\* C3: a consumer reads back what the producer of its packet stored.  For
\* every handle open for reading, the header size is the size the producer
\* froze, and the words read so far (offsets 0 .. pos-1, in order) are the
\* words the producer stored at those offsets before it closed, also when
\* the payload is split at the arena end (offsets no write call stored are
\* left out).
C3_RoundTrip ==
    \A t \in ReadOpen :
        LET k == LogFind(log, packet[t].buffer_pos, "claimed")
        IN  k # 0 =>
              /\ HdrSize(buffer, packet[t].buffer_pos) = log[k].size
              /\ Len(log[k].data) = log[k].size
              /\ Len(packet[t].img) = packet[t].pos
              /\ packet[t].pos <= log[k].size
              /\ \A i \in 1 .. Len(packet[t].img) :
                     log[k].data[i] # 0 => packet[t].img[i] = log[k].data[i]

\* a consumer has read a whole two-word payload that wraps around the arena
\* end, while a producer has another packet open
C3_Witness ==
    \E t \in ReadOpen :
        LET k == LogFind(log, packet[t].buffer_pos, "claimed")
        IN  /\ k # 0
            /\ log[k].size = 2 /\ packet[t].pos = 2
            /\ packet[t].buffer_pos + HeaderSize + 1 = state.size
            /\ packet[t].img = log[k].data
            /\ \A i \in 1 .. 2 :
                   log[k].data[i] = Byte(packet[t].buffer_pos, i - 1)
            /\ WriteOpen # {}

\* the arena cells of len words from position p on, around the arena end
Cells(p, len) == {(p + i) % state.size : i \in 0 .. (len - 1)}

\* the region of an open handle: its header and its payload, which is the
\* frozen size, or what the handle has reserved while the size is not frozen
Region(t) ==
    Cells(packet[t].buffer_pos,
          HeaderSize + (IF packet[t].mode = "write" /\ ~packet[t].size_set
                        THEN packet[t].reserved
                        ELSE HdrSize(buffer, packet[t].buffer_pos)))

\* C4: two handles open for writing never hold overlapping regions of the
\* arena, and two handles open for reading never hold the same packet (nor
\* overlapping regions).
C4_RegionExclusivity ==
    /\ \A t, u \in WriteOpen : t # u => Region(t) \cap Region(u) = {}
    /\ \A t, u \in ReadOpen :
           t # u => /\ packet[t].buffer_pos # packet[u].buffer_pos
                    /\ Region(t) \cap Region(u) = {}

\* both producers hold a packet at once, one of them with payload stored,
\* while a consumer holds a third packet
C4_Witness ==
    /\ WriteOpen = Writers /\ ReadOpen # {}
    /\ \E t \in Writers : packet[t].pos > 0

\* C5: walking the ring packet by packet from read_first, the indices come
\* in the order read_first, read_pos, read_next, and write_pos comes no later
\* than write_next, in every reachable state (cnt holds how many packets
\* each index lies behind read_first, read_first itself being 0).
C5_IndexOrder ==
    /\ 0 <= cnt.read_pos
    /\ cnt.read_pos <= cnt.read_next
    /\ cnt.write_pos <= cnt.write_next

\* the released packets that a writer may reclaim: those with nothing but
\* released packets before them
Released == {k \in InState("released") :
                \A j \in 1 .. k : log[j].st = "released"}

\* the committed packets that a reader may claim
Committed == {k \in InState("committed") : Visible(k)}

\* the position of the k-th live packet (write_next: behind the last one)
PosOf(k) == IF k <= Len(log) THEN log[k].pos ELSE state.write_next

SemaphoresMatch ==
    /\ state.written_packets = Cardinality(Committed)
    /\ state.read_packets = Cardinality(Released)
    /\ state.read_first = PosOf(1)
    /\ state.read_pos = PosOf(Cardinality(Released) + 1)
    /\ state.write_pos = FirstUncommitted

\* C6 as stated: whenever no thread is inside a call, written_packets is the
\* number of committed packets no reader has claimed (the packets from
\* read_next up to write_pos) and read_packets is the number of released
\* packets no writer has reclaimed (the packets from read_first up to
\* read_pos).
C6_SemaphoresMatch == Quiescent => SemaphoresMatch

\* C6, amended: the same, as long as ps_buffer_cancel has not been called
C6_SemaphoresMatchUntilCancel ==
    (Quiescent /\ ~state.cancelled) => SemaphoresMatch

\* one released packet waits for a writer and one committed packet for a
\* reader, and each semaphore holds its token
C6_Witness ==
    /\ Quiescent /\ ~state.cancelled
    /\ Len(log) = 2
    /\ log[1].st = "released" /\ log[2].st = "committed"
    /\ state.read_packets = 1 /\ state.written_packets = 1

\* the write handles whose size is not frozen: their packet is not in log
Unsized == {t \in WriteOpen : ~packet[t].size_set}

\* the packets in the arena, the packet of an open write handle counted
Allocated == Len(log) + Cardinality(Unsized)

\* C7 as stated: whenever no thread is inside a call, written_packets +
\* read_packets + the number of handles open for reading + the number of
\* handles open for writing is the number of packets in the arena.
C7_PacketConservation ==
    Quiescent =>
        state.written_packets + state.read_packets
            + Cardinality(ReadOpen) + Cardinality(WriteOpen) = Allocated

\* C7, amended: as long as ps_buffer_cancel has not been called, the sum has
\* two more terms: the packets committed behind an uncommitted one and the
\* packets released (by a close or by ps_buffer_drain) behind an unreleased
\* one, which no semaphore counts and no handle holds.
C7_PacketConservationOutOfOrder ==
    (Quiescent /\ ~state.cancelled) =>
        state.written_packets + state.read_packets
            + Cardinality(ReadOpen) + Cardinality(WriteOpen)
            + Cardinality(InState("committed") \ Committed)
            + Cardinality(InState("released") \ Released) = Allocated

\* B is committed behind A, which its producer still holds
C7_Witness ==
    /\ Quiescent /\ ~state.cancelled
    /\ Len(log) = 2
    /\ log[1].st = "open" /\ log[2].st = "committed"
    /\ Cardinality(WriteOpen) = 1
    /\ state.written_packets = 0

\* C8: whenever no thread is inside a call (every call has returned, with
\* success, BUSY, INVAL, NOBUFS or INTR), free_bytes >= 0.
C8_FreeBytesNonNegative == Quiescent => state.free_bytes >= 0

\* the words skipped at the arena end behind a packet of sz words at p
PadAfter(p, sz) ==
    LET q == (p + HeaderSize + sz) % state.size
    IN  IF q + HeaderSize > state.size THEN state.size - q ELSE 0

\* header, payload and padding of the first k live packets
RECURSIVE LiveBytes(_)
LiveBytes(k) ==
    IF k = 0 THEN 0
    ELSE LiveBytes(k - 1) + HeaderSize + log[k].size
             + PadAfter(log[k].pos, log[k].size)

RECURSIVE SumOver(_, _)
SumOver(S, f) ==
    IF S = {} THEN 0
    ELSE LET t == CHOOSE x \in S : TRUE IN f[t] + SumOver(S \ {t}, f)

C10_CancelRestoresFreeBytes ==
    [][\A t \in Writers :
          (pc[t] = "reserve" /\ state.cancelled /\ pc'[t] = "idle") =>
              /\ ret'.status = "EINTR"
              /\ state'.free_bytes = call[t].fb0]_vars

----------------------------------------------------------------------------
(* Progress *)

\* a thread that sleeps in sem_wait returns once the semaphore holds a token
\* and keeps holding it
FairSpec ==
    /\ Spec
    /\ \A t \in Handles : WF_vars(OpenReadWake(t))
    /\ \A t \in Handles : WF_vars(ReserveWake(t))

\* C11: once ps_buffer_cancel has set PS_BUFFER_CANCELLED the flag stays set;
\* no ps_packet_open called afterwards binds its handle; and every thread
\* that sleeps inside ps_packet_open when the flag is set eventually returns
\* from it.
C11_CancelReachesEveryOpen ==
    /\ [][state.cancelled => state'.cancelled]_vars
    /\ [][\A t \in Handles :
             (state.cancelled /\ packet[t].mode = "idle")
                 => packet'[t].mode = "idle"]_vars
    /\ \A t \in Readers :
           (state.cancelled /\ pc[t] = "openread") ~> (pc[t] = "idle")

\* a step of ps_packet_close on handle t (the other handles are untouched)
CloseStep(t) ==
    /\ pc[t] = "idle" /\ packet[t].mode # "idle"
    /\ \A u \in Handles \ {t} : packet'[u] = packet[u] /\ pc'[u] = pc[u]
    /\ Close(t)

\* the bit ps_packet_close sets on the header of handle t's packet
CloseBit(t) ==
    IF packet[t].mode = "read"
    THEN PS_PACKET_HEADER_READ ELSE PS_PACKET_HEADER_WRITTEN

\* the close of handle t has committed: the header carries the bit, the
\* handle is idle and, when the packet was at the tail (read_pos or
\* write_pos), the semaphore of the direction has been posted
Committing(t) ==
    /\ packet'[t].mode = "idle"
    /\ HasFlag(HdrFlags(buffer', packet[t].buffer_pos), CloseBit(t))
    /\ (packet[t].mode = "read" /\ state.read_pos = packet[t].buffer_pos)
           => state'.read_packets > state.read_packets
    /\ (packet[t].mode = "write" /\ state.write_pos = packet[t].buffer_pos)
           => state'.written_packets > state.written_packets

\* C12 as stated: a ps_packet_close on an open handle that returns never
\* returns INTR, and it has committed the packet, whether or not
\* PS_BUFFER_CANCELLED is set before or during the call.
C12_CloseNeverInterrupted ==
    [][\A t \in Handles :
          /\ (CloseStep(t) /\ pc'[t] = "idle")
                 => /\ ret'.status # "EINTR"
                    /\ state.cancelled => Committing(t)
          /\ (pc[t] = "reserve" /\ call[t].closing /\ pc'[t] = "idle")
                 => /\ ret'.status # "EINTR"
                    /\ state.cancelled => Committing(t)]_vars

\* C12, amended: ps_packet_close tests PS_BUFFER_CANCELLED on entry, as
\* every packet call does: with the flag set it returns INTR and changes
\* nothing (the handle stays open, the header is not marked, no semaphore
\* is posted).  With the flag clear, the close of a read handle or of a
\* write handle of frozen size returns 0 with the commit done; the close of
\* a write handle of unfrozen size runs ps_packet_setsize first: it returns
\* NOBUFS when the size reached by seek exceeds the capacity, it returns
\* INTR with nothing committed when ps_buffer_cancel is called while its
\* reserve sleeps, and it commits otherwise.
C12_CloseChecksCancelOnEntry ==
    [][\A t \in Handles :
          /\ CloseStep(t)
                 => IF state.cancelled
                    THEN /\ ret'.status = "EINTR"
                         /\ UNCHANGED <<state, buffer, packet, pc, log>>
                    ELSE IF packet[t].mode = "read" \/ packet[t].size_set
                    THEN ret'.status = "OK" /\ Committing(t)
                    ELSE IF pc'[t] # "idle"
                    THEN packet'[t].mode = "write"
                    ELSE IF HdrSize(buffer, packet[t].buffer_pos)
                               + 2 * HeaderSize > state.size
                    THEN ret'.status = "ENOBUFS" /\ packet'[t].mode = "write"
                    ELSE ret'.status = "OK" /\ Committing(t)
          /\ (pc[t] = "reserve" /\ call[t].closing /\ pc'[t] = "idle")
                 => IF state.cancelled
                    THEN /\ ret'.status = "EINTR"
                         /\ packet'[t].mode = "write"
                         /\ ~HasFlag(HdrFlags(buffer', packet[t].buffer_pos),
                                     PS_PACKET_HEADER_WRITTEN)
                    ELSE ret'.status = "OK" /\ Committing(t)]_vars

\* the buffer is cancelled and a consumer still holds a packet at read_pos
\* that carries no READ bit: its close has returned INTR
C12_Witness ==
    /\ state.cancelled /\ Quiescent
    /\ ret.status = "EINTR"
    /\ \E t \in ReadOpen :
           /\ packet[t].buffer_pos = state.read_pos
           /\ packet[t].pos = HdrSize(buffer, packet[t].buffer_pos)
           /\ packet[t].pos > 0
           /\ ~HasFlag(HdrFlags(buffer, packet[t].buffer_pos),
                       PS_PACKET_HEADER_READ)

\* a step of ps_packet_write, ps_packet_seek or ps_packet_setsize on handle t
ReservingStep(t) ==
    \/ \E n \in Chunks : Write(t, n)
    \/ \E pos \in SeekTargets : Seek(t, pos)
    \/ \E size \in SetSizes : SetSizeCall(t, size)

\* the bytes of the packets ps_packet_reserve took back during the step
ReclaimedBytes == LiveBytes(Len(log) - Len(log'))

\* a TRY reserve that fails gives back what it subtracted
BusyRestores(t) ==
    (pc'[t] = "idle" /\ ret'.status = "EBUSY" /\ ReservingStep(t))
        => /\ state'.free_bytes = state.free_bytes + ReclaimedBytes
           /\ packet'[t].reserved = packet[t].reserved

AllClosedNoneOpen ==
    /\ Quiescent /\ ~state.cancelled
    /\ ReadOpen = {} /\ WriteOpen = {}
    /\ InState("open") = {}

NoBufsExactlyAboveCapacity ==
    \A t \in Writers, n \in SetSizes :
        (packet[t].mode = "write" /\ ~packet[t].size_set /\ ~state.cancelled
            /\ SetSizeCall(t, n))
            => IF n + 2 * HeaderSize > state.size
               THEN /\ ret'.status = "ENOBUFS"
                    /\ UNCHANGED <<state, buffer, packet, pc, log>>
               ELSE ~(pc'[t] = "idle" /\ ret'.status = "ENOBUFS")

\* a ps_packet_setsize(n) with n + 2 * headerSize = arenaSize that sleeps in
\* ps_packet_reserve has a live packet in its way
LargestWaitsForPackets ==
    \A t \in Writers :
        (/\ pc[t] = "reserve" /\ ~state.cancelled
         /\ call[t].op \in {"setsize1", "setsize2"} /\ ~call[t].closing
         /\ call[t].arg + 2 * HeaderSize = state.size)
            => Len(log) > 0

\* C15: ps_packet_setsize(n) on a write handle of unfrozen size returns
\* NOBUFS, leaving free_bytes, write_next, the header and the handle as they
\* were, exactly when n + 2 * headerSize > arenaSize; with
\* n + 2 * headerSize = arenaSize it succeeds from every position of
\* write_next once the packets in the way are released: it never sleeps in
\* an arena that holds no other packet.
C15_SetSizeBoundary ==
    /\ [][NoBufsExactlyAboveCapacity]_vars
    /\ []LargestWaitsForPackets

\* where a packet header starts: the live packets, and behind the last one
\* the header of the next packet (write_next)
HeaderStarts ==
    {log[k].pos : k \in 1 .. Len(log)}
        \cup {IF Len(log) = 0 THEN state.write_next
              ELSE move_pos(log[Len(log)].pos, state.size, log[Len(log)].size)}

Indices ==
    {state.read_first, state.read_pos, state.read_next, state.write_pos,
     state.write_next}

\* C16: in every reachable state each of read_first, read_pos, read_next,
\* write_pos and write_next is 0 or the start of a packet header, and a whole
\* header fits between it and the arena end.
C16_HeadersNeverStraddle ==
    \A i \in Indices :
        /\ i + HeaderSize <= state.size
        /\ i = 0 \/ i \in HeaderStarts

\* the same while ps_buffer_cancel has not been called
C16_UntilCancel == ~state.cancelled => C16_HeadersNeverStraddle

----------------------------------------------------------------------------
(* End-to-end scenarios.  One word of the model is one field of the packet *)
(* header: 8 bytes where sizeof(struct ps_packet_header_s) is 16.          *)

Words(bytes) == bytes \div 8

\* ps_buffer_init with an arena of `size' words
InitArena(size) ==
    /\ state = [size |-> size, cancelled |-> FALSE,
                read_pos |-> 0, write_pos |-> 0, read_next |-> 0,
                write_next |-> 0, read_first |-> 0,
                free_bytes |-> size - HeaderSize,
                read_mutex |-> 0, write_mutex |-> 0,
                read_close_mutex |-> 0, write_close_mutex |-> 0,
                read_packets |-> 0, written_packets |-> 0]
    /\ buffer = [i \in 0 .. size - 1 |-> 0]
    /\ packet = [t \in Handles |-> IdlePacket]
    /\ pc = [t \in Handles |-> "idle"]
    /\ call = [t \in Handles |-> NoCall]
    /\ ret = [status |-> "OK", count |-> 0]
    /\ opened = 0
    /\ cnt = [read_pos |-> 0, read_next |-> 0, write_pos |-> 0, write_next |-> 0]
    /\ log = <<>>

\* the wrap scenario: an arena of 256 bytes, one producer and one consumer,
\* packets of 120 bytes written and read in chunks
WrapArena == Words(256)
WrapPayload == Words(120)
WrapPackets == 2

WrapNext ==
    \/ opened < WrapPackets /\ OpenWriteCall(1, FALSE)
    \/ SetSizeCall(1, WrapPayload)
    \/ \E n \in Chunks : Write(1, n)
    \/ ReserveWake(1)
    \/ packet[1].size_set /\ packet[1].pos = WrapPayload /\ Close(1)
    \/ OpenRead(3, FALSE)
    \/ OpenReadWake(3)
    \/ \E n \in Chunks : Read(3, n)
    \/ Close(3)

WrapSpec == InitArena(WrapArena) /\ [][WrapNext]_vars

\* the handles that hold the second packet of the scenario
SecondWritten ==
    {t \in WriteOpen : opened = (IF packet[t].size_set THEN 2 ELSE 1)}

\* what a consumer has read of its packet is what the producer stored there
ReadsIntact(t) ==
    LET k == LogFind(log, packet[t].buffer_pos, "claimed")
    IN  k # 0 =>
          /\ HdrSize(buffer, packet[t].buffer_pos) = WrapPayload
          /\ Len(packet[t].img) = packet[t].pos
          /\ \A i \in 1 .. Len(packet[t].img) :
                 /\ log[k].data[i] \in {0, Byte(packet[t].buffer_pos, i - 1)}
                 /\ log[k].data[i] # 0 => packet[t].img[i] = log[k].data[i]

\* C17 as stated: arena 256, header 16; after one packet of 120 bytes is
\* written, consumed and closed, the next packet of 120 bytes opened for
\* write has buffer_pos = 0, and reading it returns its bytes intact.
C17_SecondPacketAtZero ==
    /\ \A t \in SecondWritten : packet[t].buffer_pos = 0
    /\ \A t \in ReadOpen : ReadsIntact(t)

\* C17, amended: the header of the second packet does not wrap: it is at
\* buffer_pos = 136 = (16 + 0 + 120) % 256, where a whole header fits
\* (136 + 16 <= 256).  It is the payload that wraps: 104 bytes up to the
\* arena end and 16 from offset 0, write_next = 16 once the size is frozen;
\* reading it returns its 120 bytes intact.
C17_WrapScenario ==
    /\ \A t \in SecondWritten :
           /\ packet[t].buffer_pos = Words(136)
           /\ packet[t].size_set => state.write_next = Words(16)
    /\ \A t \in ReadOpen : ReadsIntact(t)

\* the consumer has read the 120 bytes of the second packet, which the
\* producer wrote in full across the arena end
C17_Witness ==
    \E t \in ReadOpen :
        /\ state.size = WrapArena
        /\ packet[t].buffer_pos = Words(136)
        /\ packet[t].pos = WrapPayload
        /\ packet[t].img = Src(Words(136), 0, WrapPayload)
        /\ state.write_next = Words(16)

\* the exact-fit scenario: an arena of 1024 bytes, one producer that writes
\* and closes ten packets of 80 bytes, one consumer that reads and closes
\* them (or ps_buffer_drain)
ExactFitArena == Words(1024)
ExactFitPayload == Words(80)
ExactFitPackets == 10

ExactFitNext ==
    \/ opened < ExactFitPackets /\ OpenWriteCall(1, FALSE)
    \/ SetSizeCall(1, ExactFitPayload)
    \/ Write(1, ExactFitPayload)
    \/ packet[1].size_set /\ packet[1].pos = ExactFitPayload /\ Close(1)
    \/ OpenRead(3, FALSE)
    \/ OpenReadWake(3)
    \/ Read(3, ExactFitPayload)
    \/ Close(3)
    \/ Drain

ExactFitSpec == InitArena(ExactFitArena) /\ [][ExactFitNext]_vars

\* k packets have been written and closed, every one has been consumed, and
\* none has been reclaimed
AllConsumed(k) ==
    /\ Quiescent /\ WriteOpen = {} /\ ReadOpen = {}
    /\ opened = k /\ Len(log) = k
    /\ InState("released") = 1 .. k

\* C18 as stated: arena 1024, header 16; once the producer has written and
\* closed ten packets of 80 bytes and the consumer has read and closed all
\* ten, free_bytes is back at 1024 - 16 = 1008.
C18_FreeBytesBackAtInitial ==
    AllConsumed(10) => state.free_bytes = Words(1008)

\* C18, amended: consuming a packet credits nothing.  After k packets of 80
\* bytes, all consumed, free_bytes is still 1008 - 96 * k, 48 bytes after the
\* ten, with one token of read_packets per packet: the bytes come back only
\* when a later ps_packet_reserve runs short and reclaims the packets.
C18_ExactFitScenario ==
    \A k \in 1 .. ExactFitPackets :
        AllConsumed(k) =>
            /\ state.free_bytes =
                   state.size - HeaderSize - k * (HeaderSize + ExactFitPayload)
            /\ k = 10 => state.free_bytes = Words(48)
            /\ state.read_packets = k
            /\ state.read_first = 0

\* the ten packets are written, closed and consumed
C18_Witness ==
    /\ state.size = ExactFitArena
    /\ AllConsumed(10)
    /\ state.free_bytes = Words(48)
    /\ state.read_packets = 10
    /\ state.read_pos = state.write_next

----------------------------------------------------------------------------
(* Calls that break the contract of the handle *)

\* ps_packet_setsize on a handle that is not open, is open for reading, or
\* has its size frozen
MisuseSetSize(t, size) ==
    /\ pc[t] = "idle"
    /\ packet[t].mode \in {"idle", "read"} \/ packet[t].size_set
    /\ Finish(t, ps_packet_setsize(Cfg(t), size))

\* ps_packet_setsize with a size above the capacity
OversizeSetSize(t, size) ==
    /\ size + 2 * HeaderSize > state.size
    /\ SetSizeCall(t, size)

\* ps_packet_cancel on a handle that is not open, is open for reading, or
\* has its size frozen
MisuseCancel(t) ==
    /\ pc[t] = "idle"
    /\ packet[t].mode \in {"idle", "read"} \/ packet[t].size_set
    /\ Finish(t, ps_packet_cancel(Cfg(t)))

\* ps_packet_read on a handle that is not open, or past header.size
MisuseRead(t, n) ==
    /\ pc[t] = "idle"
    /\ \/ packet[t].mode = "idle"
       \/ /\ packet[t].mode = "read"
          /\ packet[t].pos + n > HdrSize(buffer, packet[t].buffer_pos)
    /\ Finish(t, ps_packet_read(Cfg(t), n))

\* ps_packet_seek on a handle that is not open, or past header.size
MisuseSeek(t, pos) ==
    /\ pc[t] = "idle"
    /\ \/ packet[t].mode = "idle"
       \/ /\ packet[t].mode = "read" \/ packet[t].size_set
          /\ pos > HdrSize(buffer, packet[t].buffer_pos)
    /\ Finish(t, ps_packet_seek(Cfg(t), pos))

\* ps_packet_write on a handle that is not open, or past the frozen size
MisuseWrite(t, n) ==
    /\ pc[t] = "idle"
    /\ \/ packet[t].mode = "idle"
       \/ /\ packet[t].mode = "write" /\ packet[t].size_set
          /\ packet[t].pos + n > HdrSize(buffer, packet[t].buffer_pos)
    /\ Finish(t, ps_packet_write(Cfg(t), t, n))

\* ps_packet_close on a handle that is not open
MisuseClose(t) ==
    /\ pc[t] = "idle" /\ packet[t].mode = "idle"
    /\ Finish(t, ps_packet_close(Cfg(t)))

ContractViolation(t) ==
    \/ \E size \in SetSizes : MisuseSetSize(t, size)
    \/ \E size \in SetSizes : OversizeSetSize(t, size)
    \/ MisuseCancel(t)
    \/ \E n \in Chunks : MisuseRead(t, n)
    \/ \E pos \in SeekTargets : MisuseSeek(t, pos)
    \/ \E n \in Chunks : MisuseWrite(t, n)
    \/ MisuseClose(t)

\* one producer and one consumer, with the calls that break the contract
ContractHandles == {1, 3}

ContractNext ==
    \/ \E try \in TryFlags(1) : OpenWrite(1, try)
    \/ \E size \in SetSizes : SetSizeCall(1, size)
    \/ \E n \in Chunks : Write(1, n)
    \/ \E pos \in SeekTargets : Seek(1, pos)
    \/ Cancel(1)
    \/ ReserveWake(1)
    \/ \E try \in TryFlags(3) : OpenRead(3, try)
    \/ OpenReadWake(3)
    \/ \E n \in Chunks : Read(3, n)
    \/ \E t \in ContractHandles : Close(t)
    \/ BufferCancel
    \/ \E t \in ContractHandles, size \in SetSizes : MisuseSetSize(t, size)
    \/ \E t \in ContractHandles : MisuseCancel(t)
    \/ \E t \in ContractHandles, n \in Chunks : MisuseRead(t, n)
    \/ \E t \in ContractHandles, pos \in SeekTargets : MisuseSeek(t, pos)
    \/ \E t \in ContractHandles, n \in Chunks : MisuseWrite(t, n)
    \/ \E t \in ContractHandles : MisuseClose(t)

ContractSpec == Init /\ [][ContractNext]_vars

\* nothing but the status returned changes
NothingMutated == UNCHANGED <<state, buffer, packet, pc, call, opened, cnt, log>>

\* C19 as stated: a call that is illegal for the state of its handle
\* (setsize or cancel on a read handle or on a handle of frozen size,
\* setsize above the capacity, read or seek past header.size, write past the
\* frozen size, any call on a handle that is not open) returns INVAL or
\* NOBUFS and changes no index, no semaphore, no mutex, no header, and
\* nothing of the handle.
C19_ViolationsReturnInval ==
    [][\A t \in ContractHandles :
          ContractViolation(t)
              => /\ NothingMutated
                 /\ ret'.status \in {"EINVAL", "ENOBUFS"}]_vars

\* C19, amended: such a call changes nothing; it returns INVAL or NOBUFS,
\* except that on an open handle of a buffer that is CANCELLED it returns
\* INTR, because the cancel test comes before the test of the contract.
C19_ViolationsMutateNothing ==
    [][\A t \in ContractHandles :
          ContractViolation(t)
              => /\ NothingMutated
                 /\ ret'.status \in
                       (IF packet[t].mode # "idle" /\ state.cancelled
                        THEN {"EINTR"} ELSE {"EINVAL", "ENOBUFS"})]_vars

\* a producer whose packet has its size frozen and no payload was refused a
\* call while a consumer holds a packet too
C19_Witness ==
    /\ ret.status = "EINVAL" /\ ~state.cancelled
    /\ \E t \in WriteOpen : packet[t].size_set /\ packet[t].pos = 0
                               /\ HdrSize(buffer, packet[t].buffer_pos) = 0
    /\ \E t \in ReadOpen : packet[t].pos = 0
                              /\ HdrSize(buffer, packet[t].buffer_pos) = 0

----------------------------------------------------------------------------
(* The write head *)

\* C20: at most one handle is open for writing with its size not frozen.
\* That handle is the one at write_next, it holds write_mutex until
\* ps_buffer_cancel takes the mutex away, and from then on no
\* ps_packet_open succeeds: between a successful open(WRITE) and the end of
\* the setsize or cancel of that handle no other open(WRITE) succeeds,
\* ps_buffer_cancel included.
C20_WriteHeadExclusive ==
    /\ Cardinality(Unsized) <= 1
    /\ \A t \in Unsized :
           /\ packet[t].buffer_pos = state.write_next
           /\ state.write_mutex = (IF state.cancelled THEN 0 ELSE t)

\* ps_buffer_cancel has unlocked write_mutex under a producer whose size is
\* not frozen, and the open of the other producer has been refused
C20_Witness ==
    /\ state.cancelled /\ state.write_mutex = 0
    /\ Unsized = {1} /\ packet[1].pos > 0
    /\ packet[2].mode = "idle" /\ pc[2] = "idle"
    /\ ret.status = "EINTR"
    /\ Len(log) > 0

----------------------------------------------------------------------------
(* ps_packet_cancel *)

\* a step of ps_packet_cancel on handle t (the other handles are untouched)
CancelStep(t) ==
    /\ pc[t] = "idle" /\ packet[t].mode = "write"
    /\ \A u \in Handles \ {t} : packet'[u] = packet[u] /\ pc'[u] = pc[u]
    /\ Cancel(t)

----------------------------------------------------------------------------
(* Backpressure *)

\* the producers asleep in ps_packet_reserve
Reserving == {t \in Writers : pc[t] = "reserve"}

\* C22 (the bound): while a producer sleeps in ps_packet_reserve, free_bytes
\* is negative but not below minus the payload it asked for.
C22_DeficitWithinPayload ==
    \A t \in Reserving :
        ~state.cancelled =>
            (state.free_bytes < 0 /\ state.free_bytes >= 0 - call[t].arg)

\* every packet in the arena has been consumed and released
AllReleased == InState("released") = 1 .. Len(log)

\* the wake of a sleeping producer after the consumers have released every
\* packet of the arena ends its call
ReleaseCompletes ==
    \A t \in Writers :
        (/\ pc[t] = "reserve" /\ ~state.cancelled
         /\ Len(log) > 0 /\ AllReleased
         /\ ReserveWake(t))
            => pc'[t] = "idle"

\* C22 (progress): a producer whose reservation exceeds free_bytes sleeps in
\* ps_packet_reserve with free_bytes negative, and once the consumers have
\* closed the packets of the arena, so that read_packets is positive and
\* nothing is left for them to release, the producer's wake completes its
\* reservation, for every size the capacity test accepts.
C22_BackpressureProgress ==
    /\ [](\A t \in Reserving : state.free_bytes < 0)
    /\ [][ReleaseCompletes]_vars

----------------------------------------------------------------------------
(* Tokens of read_packets *)

\* read_first and the bytes given back after k reclaim steps that start at
\* offset rf of the arena buf
RECURSIVE ReclaimWalk(_, _, _, _)
ReclaimWalk(buf, rf, bytes, k) ==
    IF k = 0 THEN [read_first |-> rf, bytes |-> bytes]
    ELSE LET h == HdrSize(buf, rf)
             nx == (rf + HeaderSize + h) % state.size
         IN  IF nx + HeaderSize > state.size
             THEN ReclaimWalk(buf, 0, bytes + HeaderSize + h + (state.size - nx),
                              k - 1)
             ELSE ReclaimWalk(buf, nx, bytes + HeaderSize + h, k - 1)

\* the tokens of read_packets a step takes, the packets read_first passes in it
TokensTaken == state.read_packets - state'.read_packets
PacketsReclaimed == cnt.read_pos - cnt'.read_pos

\* a step in which ps_packet_reserve takes a token or reclaims a packet
ReclaimingStep == TokensTaken > 0 \/ PacketsReclaimed > 0

\* C23: every token of read_packets that ps_packet_reserve takes, by sem_wait
\* or by sem_trywait, is followed before the call returns or sleeps again by
\* exactly one reclaim step, which moves read_first over the packet found
\* there and gives its header, payload and padding back to free_bytes; this
\* also holds when the call returns INTR, the CANCELLED flag being tested
\* only after the reclaim.
C23_NoTokenLeak ==
    [][ReclaimingStep =>
          LET w == ReclaimWalk(buffer, state.read_first, 0, TokensTaken)
          IN  /\ TokensTaken = PacketsReclaimed
              /\ state'.read_first = w.read_first
              /\ \A t \in Writers :
                     (ReserveWake(t) /\ pc'[t] = "idle" /\ ret'.status = "EINTR")
                         => state'.free_bytes = state.free_bytes + w.bytes]_vars

\* the token posted by ps_buffer_cancel has been taken by a producer, whose
\* call reclaimed and returned INTR
C23_Witness ==
    /\ state.cancelled /\ ret.status = "EINTR"
    /\ \E t \in Writers : pc[t] = "idle" /\ packet[t].mode = "write"
    /\ state.read_packets = 0

----------------------------------------------------------------------------
(* ps_packet_seek on a write handle *)

\* a step of ps_packet_seek(pos) on handle t (the other handles are untouched)
SeekStep(t, pos) ==
    /\ pc[t] = "idle" /\ packet[t].mode = "write"
    /\ \A u \in Handles \ {t} : packet'[u] = packet[u] /\ pc'[u] = pc[u]
    /\ Seek(t, pos)

\* a seek past the capacity of the arena is refused and changes nothing
SeekRejectedAboveCapacity ==
    \A t \in Writers : \A n \in SeekTargets :
        (/\ ~packet[t].size_set /\ ~state.cancelled
         /\ n + 2 * HeaderSize > state.size
         /\ SeekStep(t, n))
            => /\ pc'[t] = "idle" /\ ret'.status # "OK"
               /\ state'.free_bytes = state.free_bytes
               /\ packet'[t].pos = packet[t].pos

\* the size recorded for a packet being written passes the capacity test of
\* the ps_packet_setsize that ps_packet_close implies
ClosableAfterSeek ==
    \A t \in Unsized :
        HdrSize(buffer, packet[t].buffer_pos) + 2 * HeaderSize <= state.size

\* C24: on a write handle of unfrozen size ps_packet_seek(n) is refused,
\* free_bytes and the cursor unchanged, whenever n + 2 * headerSize >
\* arenaSize, the bound of ps_packet_write; so the size a successful seek
\* leaves in the header never makes the setsize implied by close fail with
\* NOBUFS.
C24_SeekBoundsAsWrite ==
    /\ [][SeekRejectedAboveCapacity]_vars
    /\ []ClosableAfterSeek

----------------------------------------------------------------------------
(* Ownership of the indices *)

\* the calls of producer t that can reach ps_packet_reserve or move write_next
WriterActs(t) ==
    \/ ReserveWake(t)
    \/ Cancel(t)
    \/ Close(t)
    \/ \E n \in SetSizes : SetSizeCall(t, n)
    \/ \E n \in Chunks : Write(t, n)
    \/ \E n \in SeekTargets : Seek(t, n)

\* free_bytes, read_first and write_next change only in a call of the
\* producer that holds write_mutex
WriteSideOwned ==
    (\/ state'.free_bytes # state.free_bytes
     \/ state'.read_first # state.read_first
     \/ state'.write_next # state.write_next)
        => \E t \in Writers : state.write_mutex = t /\ WriterActs(t)

\* read_next changes only in a ps_packet_openread that holds read_mutex, or
\* in an open or a drain that finds it free and takes it
ReadNextOwned ==
    state'.read_next # state.read_next
        => \/ \E t \in Readers : state.read_mutex = t /\ OpenReadWake(t)
           \/ /\ state.read_mutex = 0
              /\ \/ Drain
                 \/ \E t \in Readers : \E try \in TryFlags(t) : OpenRead(t, try)

\* write_pos and read_pos change only in the close of their side (which may
\* have slept in its implied setsize), or in a drain, which take the close
\* mutex of that side
TailsOwned ==
    /\ state'.write_pos # state.write_pos
           => \E t \in WriteOpen :
                  /\ state.write_close_mutex = 0
                  /\ Close(t) \/ (call[t].closing /\ ReserveWake(t))
    /\ state'.read_pos # state.read_pos
           => /\ state.read_close_mutex = 0
              /\ Drain \/ \E t \in ReadOpen : Close(t)

\* C25: free_bytes, read_first and write_next are modified only by the
\* thread that holds write_mutex, read_next only by a thread that holds
\* read_mutex, read_pos and write_pos only under a mutex of their side, and
\* never by two threads at once (one producer at most is between its open
\* and the end of its setsize), ps_buffer_cancel included.
C25_IndexOwnership ==
    /\ [][WriteSideOwned /\ ReadNextOwned /\ TailsOwned]_vars
    /\ [](Cardinality(Unsized) <= 1)

\* the same as long as ps_buffer_cancel has not been called
C25_UntilCancel ==
    [][~state.cancelled => (WriteSideOwned /\ ReadNextOwned /\ TailsOwned)]_vars

----------------------------------------------------------------------------
(* Lock discipline *)

ClaimMutexes == {"read_mutex", "write_mutex"}
CloseMutexes == {"read_close_mutex", "write_close_mutex"}

\* a set of mutexes with a claim mutex and a close mutex in it
Mixed(held) == held \cap ClaimMutexes # {} /\ held \cap CloseMutexes # {}

\* the mutexes ps_buffer_drain holds while it walks the packets: it locks
\* read_mutex, then read_close_mutex, and unlocks them at the end
DrainMutexes == {"read_mutex", "read_close_mutex"}

\* a step in which the ps_packet_close of handle t takes the close mutex of
\* its side and commits, at once or after its implied setsize has slept
CommitStep(t) ==
    /\ packet[t].mode # "idle"
    /\ packet'[t].mode = "idle" /\ pc'[t] = "idle" /\ ret'.status = "OK"
    /\ CloseStep(t) \/ (call[t].closing /\ ReserveWake(t))

\* the mutexes the thread of handle t holds while it commits: the close mutex
\* of its side, and the claim mutexes it still has (ps_packet_closeread
\* changes no mutex; ps_packet_closewrite locks write_close_mutex after its
\* implied setsize and changes no claim mutex from there on)
CommitMutexes(t) ==
    {IF packet[t].mode = "read" THEN "read_close_mutex" ELSE "write_close_mutex"}
        \cup {m \in ClaimMutexes : state'[m] = t}
        \cup {m \in ClaimMutexes : packet[t].mode = "read" /\ state[m] = t}

\* between the calls, and while a thread sleeps in ps_packet_openread or
\* ps_packet_reserve (open, setsize, write, seek, cancel), no close mutex is
\* held
CloseMutexesFree ==
    state.read_close_mutex = 0 /\ state.write_close_mutex = 0

----------------------------------------------------------------------------
(* Unreleased packets *)

\* the packets of the arena that are committed and not claimed, or open for
\* read
Unreleased == InState("committed") \cup InState("claimed")

\* every packet read_first passes in a step was released by its consumer and
\* lies before read_pos
ReclaimsReleasedOnly ==
    PacketsReclaimed > 0 =>
        /\ PacketsReclaimed <= Len(log)
        /\ PacketsReclaimed <= cnt.read_pos
        /\ \A i \in 1 .. PacketsReclaimed : log[i].st = "released"

\* no step stores into the size word or the payload of an unreleased packet,
\* and the only change of its flags word is the READ bit its consumer sets
UnreleasedUntouched ==
    \A i \in Unreleased :
        /\ buffer'[log[i].pos + 1] = buffer[log[i].pos + 1]
        /\ \A c \in Cells(log[i].pos + HeaderSize, log[i].size) :
               buffer'[c] = buffer[c]
        /\ \/ buffer'[log[i].pos] = buffer[log[i].pos]
           \/ buffer'[log[i].pos] =
                  SetFlag(buffer[log[i].pos], PS_PACKET_HEADER_READ)

\* C27: no producer gives back to free_bytes, nor stores payload or a zeroed
\* next header into, a byte of a packet that is committed and not claimed or
\* open for read; ps_packet_reserve moves read_first only over packets whose
\* READ bit is set and that lie before read_pos, also when the token it took
\* was posted by ps_buffer_cancel.
C27_UnreleasedNeverReclaimed ==
    [][ReclaimsReleasedOnly /\ UnreleasedUntouched]_vars

\* the same as long as ps_buffer_cancel has not been called
C27_UntilCancel ==
    [][~state.cancelled => (ReclaimsReleasedOnly /\ UnreleasedUntouched)]_vars

----------------------------------------------------------------------------
(* Posts of the semaphores *)

\* how many packets at the head of lg write_pos has passed (all committed),
\* and how many read_pos has passed (all released)
PassedByWritePos(lg) ==
    Cardinality({k \in 1 .. Len(lg) :
                    \A j \in 1 .. k : lg[j].st \notin {"open", "bad"}})
PassedByReadPos(lg) ==
    Cardinality({k \in 1 .. Len(lg) : \A j \in 1 .. k : lg[j].st = "released"})

\* the sem_post calls a step makes on each semaphore
WrittenPosts ==
    IF state'.written_packets > state.written_packets
    THEN state'.written_packets - state.written_packets ELSE 0
ReadPosts ==
    IF state'.read_packets > state.read_packets
    THEN state'.read_packets - state.read_packets ELSE 0

\* the packets that leave the arena in a step (only a producer's step moves
\* read_first, and it leaves read_pos alone)
LeftArena == IF PacketsReclaimed > 0 THEN PacketsReclaimed ELSE 0

\* the packets write_pos and read_pos pass in a step
NewlyVisible == PassedByWritePos(log') + LeftArena - PassedByWritePos(log)
NewlyReleased == PassedByReadPos(log') + LeftArena - PassedByReadPos(log)

\* every post of written_packets is for one packet that write_pos passes,
\* every post of read_packets for one packet that read_pos passes, and the
\* index passes no packet without a post
OnePostPerPacket ==
    /\ WrittenPosts = NewlyVisible
    /\ ReadPosts = NewlyReleased

\* on a cancelled buffer every close returns INTR: no packet is posted a
\* second time, and the only posts left are those of ps_buffer_drain
NoPostOnceCancelled ==
    /\ WrittenPosts = 0
    /\ ReadPosts > 0 => Drain

\* C28: every committed packet causes exactly one post of written_packets,
\* made when write_pos passes it, and once consumed exactly one post of
\* read_packets, made when read_pos passes it: by its own close, by the walk
\* of another consumer's close after closes out of order, or by
\* ps_buffer_drain, which leaves the post of a packet behind one still open
\* for read to that consumer's close.  (The tokens ps_buffer_cancel posts
\* are for no packet; once it has been called no close posts any more.)
C28_ExactlyOnceRelease ==
    [][BufferCancel \/ IF state.cancelled THEN NoPostOnceCancelled
                                          ELSE OnePostPerPacket]_vars

\* a packet consumed by ps_buffer_drain or closed out of order lies behind a
\* packet still open for read: its post of read_packets is left to that
\* consumer's close
C28_Witness ==
    /\ ~state.cancelled
    /\ Len(log) = 2 /\ log[1].st = "claimed" /\ log[2].st = "released"
    /\ Cardinality(ReadOpen) = 1
    /\ state.read_packets = 0

====
